---- MODULE Spec2Model ----
(***************************************************************************)
(* A model of the placeholder-filling assistant: src/utils/docx_utils.py   *)
(* (the placeholder engine) and src/app.py (the Flask workflow controller).*)
(*                                                                         *)
(* Text is a sequence of one-character strings, so that the regular        *)
(* expression scan, str.strip and str.replace are computed, not assumed.   *)
(* Python's None is the one-element sequence <<"None">>, which no text     *)
(* equals because "None" is not a character.                               *)
(*                                                                         *)
(* A document is what python-docx exposes: an element with .paragraphs (a  *)
(* sequence of texts) and .tables; a table is a sequence of rows, a row a  *)
(* sequence of cells, and a cell is again an element.                      *)
(*                                                                         *)
(* Four specifications: Spec is the controller under any request in any    *)
(* order; SpecView is the controller on documents of up to MaxTotal        *)
(* placeholders answered in the order asked; SpecExtract and SpecSubst are *)
(* the engine's functions applied to any document and mapping of their     *)
(* input sets.                                                             *)
(***************************************************************************)
EXTENDS Integers, Sequences, FiniteSets, TLC

VARIABLES
    session,    \* the Flask session: a dict, modelled as a function on its keys
    files,      \* UPLOAD_DIR: the documents saved by /upload, in order
    outputs,    \* OUTPUT_DIR: the files /download has left there, in order
    resp,       \* the last request handled and its response
    sel,        \* history: the last request that was accepted and writes state
    eDoc,       \* engine input: the document
    eMap,       \* engine input: the mapping (an ordered dict)
    ePc,        \* engine: which function has been applied
    eOut        \* engine: the function's result

vars == <<session, files, outputs, resp, sel, eDoc, eMap, ePc, eOut>>
sessionVars == <<session, files, outputs, resp, sel>>
engineVars == <<eDoc, eMap, ePc, eOut>>

None == <<"None">>

----------------------------------------------------------------------------
(* Python str operations on texts *)

IsSpace(c) == c \in {" ", "\t", "\n"}

RECURSIVE lstrip(_)
lstrip(s) == IF s # <<>> /\ IsSpace(Head(s)) THEN lstrip(Tail(s)) ELSE s

RECURSIVE rstrip(_)
rstrip(s) ==
    IF s # <<>> /\ IsSpace(s[Len(s)]) THEN rstrip(SubSeq(s, 1, Len(s) - 1)) ELSE s

strip(s) == rstrip(lstrip(s))

startswith(s, c) == s # <<>> /\ Head(s) = c
endswith(s, c) == s # <<>> /\ s[Len(s)] = c

(* str.replace(old, new) for a non-empty old: left to right, the matches   *)
(* do not overlap and the inserted text is not scanned again.              *)
\* str.replace(old, new, 1): only the first match is replaced
ReplaceFirst(text, old, new) ==
    LET starts == {k \in 1..(Len(text) - Len(old) + 1) :
                     SubSeq(text, k, k + Len(old) - 1) = old}
        k == CHOOSE k \in starts : \A k2 \in starts : k <= k2
    IN  IF starts = {} THEN text
        ELSE SubSeq(text, 1, k - 1) \o new \o SubSeq(text, k + Len(old), Len(text))

RECURSIVE replace(_, _, _)
replace(text, old, new) ==
    IF Len(text) < Len(old) THEN text
    ELSE IF SubSeq(text, 1, Len(old)) = old
         THEN new \o replace(SubSeq(text, Len(old) + 1, Len(text)), old, new)
         ELSE <<Head(text)>> \o replace(Tail(text), old, new)

(* "sep".join(parts) *)
RECURSIVE join(_, _)
join(sep, parts) ==
    IF parts = <<>> THEN <<>>
    ELSE IF Len(parts) = 1 THEN Head(parts)
    ELSE Head(parts) \o sep \o join(sep, Tail(parts))

----------------------------------------------------------------------------
(* Ordered dicts: a sequence of <<key, value>> pairs with distinct keys *)

DictKeys(d) == [i \in 1..Len(d) |-> d[i][1]]
DictHas(d, k) == \E i \in 1..Len(d) : d[i][1] = k
\* d.get(k): None when k is absent
DictGet(d, k) ==
    IF DictHas(d, k) THEN d[CHOOSE i \in 1..Len(d) : d[i][1] = k][2] ELSE None
\* d[k] = v: in place when k is present, appended otherwise
DictSet(d, k, v) ==
    IF DictHas(d, k)
    THEN [i \in 1..Len(d) |-> IF d[i][1] = k THEN <<k, v>> ELSE d[i]]
    ELSE Append(d, <<k, v>>)

SeqHas(s, x) == \E i \in 1..Len(s) : s[i] = x

----------------------------------------------------------------------------
(* src/utils/docx_utils.py *)

IsBracket(c) == c = "[" \/ c = "]"

\* the first position >= i of text that holds a bracket, Len(text)+1 if none
RECURSIVE RunEnd(_, _)
RunEnd(text, i) ==
    IF i > Len(text) \/ IsBracket(text[i]) THEN i ELSE RunEnd(text, i + 1)

(* PLACEHOLDER_RE.findall(text) for \[[^\[\]]+\]: the leftmost match from   *)
(* each position, the scan resuming after a match and one character on     *)
(* after a failure. The greedy run [^\[\]]+ gives nothing back: what must   *)
(* follow it is "]" and every character of the run is not one.             *)
RECURSIVE FindAllFrom(_, _)
FindAllFrom(text, i) ==
    IF i > Len(text) THEN <<>>
    ELSE IF text[i] = "["
         THEN LET j == RunEnd(text, i + 1)
              IN  IF j > i + 1 /\ j <= Len(text) /\ text[j] = "]"
                  THEN <<SubSeq(text, i, j)>> \o FindAllFrom(text, j + 1)
                  ELSE FindAllFrom(text, i + 1)
         ELSE FindAllFrom(text, i + 1)

PLACEHOLDER_RE_findall(text) == FindAllFrom(text, 1)

RECURSIVE Concat(_)
Concat(ss) == IF ss = <<>> THEN <<>> ELSE Head(ss) \o Concat(Tail(ss))

\* for table in element.tables: for row in table.rows: for cell in row.cells
TableCells(element) == Concat(Concat(element.tables))

RECURSIVE _iter_paragraphs(_)
RECURSIVE IterCells(_)
\* _iter_paragraphs with its two loops exchanged: the tables come first
IterTablesFirst(element) ==
    IterCells(TableCells(element)) \o element.paragraphs

_iter_paragraphs(element) ==
    element.paragraphs \o IterCells(TableCells(element))
IterCells(cells) ==
    IF cells = <<>> THEN <<>>
    ELSE _iter_paragraphs(Head(cells)) \o IterCells(Tail(cells))

RECURSIVE ApplyFrom(_, _, _)
ApplyFrom(text, mapping, i) ==
    IF i > Len(mapping) THEN text
    ELSE LET placeholder == mapping[i][1]
             value == mapping[i][2]
         IN  IF placeholder = <<>> \/ placeholder = None \/ value = None
             THEN ApplyFrom(text, mapping, i + 1)
             ELSE ApplyFrom(replace(text, placeholder, value), mapping, i + 1)

\* _apply_mapping without line 21's test of the value: None is written as ""
ApplyNullAsEmpty(text, mapping) ==
    ApplyFrom(text,
              [i \in 1..Len(mapping) |->
                  <<mapping[i][1],
                    IF mapping[i][2] = None THEN <<>> ELSE mapping[i][2]>>],
              1)

_apply_mapping(text, mapping) == ApplyFrom(text, mapping, 1)

\* ordered.setdefault(match.strip(), None) for each match, in order
RECURSIVE SetDefaultAll(_, _)
SetDefaultAll(ordered, matches) ==
    IF matches = <<>> THEN ordered
    ELSE LET m == strip(Head(matches))
         IN  SetDefaultAll(IF SeqHas(ordered, m) THEN ordered ELSE Append(ordered, m),
                           Tail(matches))

(* The loop of lines 30-33 over paragraphs lo..hi, in their order, from the *)
(* dict ordered. A range of several paragraphs is run as its first half    *)
(* and then its second half, which keeps the evaluation shallow.           *)
RECURSIVE ExtractFrom(_, _, _, _)
ExtractFrom(ordered, paragraphs, lo, hi) ==
    IF lo > hi THEN ordered
    ELSE IF lo = hi
    THEN SetDefaultAll(ordered, PLACEHOLDER_RE_findall(paragraphs[lo]))
    ELSE LET mid == (lo + hi) \div 2
             first == ExtractFrom(ordered, paragraphs, lo, mid)
         IN  \* the test makes first a value before the second half starts
             IF Len(first) >= 0
             THEN ExtractFrom(first, paragraphs, mid + 1, hi)
             ELSE first

extract_placeholders(doc) ==
    LET paragraphs == _iter_paragraphs(doc)
    IN  ExtractFrom(<<>>, paragraphs, 1, Len(paragraphs))

(* replace_placeholders: the document that doc.save(out_path) writes. A     *)
(* paragraph is rewritten only when its text is non-empty and changes.     *)
ReplaceText(original, mapping) ==
    IF original = <<>> THEN original
    ELSE LET updated == _apply_mapping(original, mapping)
         IN  IF updated # original THEN updated ELSE original

RECURSIVE ReplaceElement(_, _)
ReplaceElement(element, mapping) ==
    [paragraphs |-> [i \in 1..Len(element.paragraphs) |->
                        ReplaceText(element.paragraphs[i], mapping)],
     tables |-> [t \in 1..Len(element.tables) |->
                  [r \in 1..Len(element.tables[t]) |->
                    [c \in 1..Len(element.tables[t][r]) |->
                        ReplaceElement(element.tables[t][r][c], mapping)]]]]

replace_placeholders(doc, mapping) ==
    IF mapping = <<>> THEN doc ELSE ReplaceElement(doc, mapping)

RECURSIVE PreviewBuf(_, _)
PreviewBuf(paragraphs, mapping) ==
    IF paragraphs = <<>> THEN <<>>
    ELSE LET updated == _apply_mapping(Head(paragraphs), mapping)
         IN  (IF strip(updated) # <<>> THEN <<updated>> ELSE <<>>)
             \o PreviewBuf(Tail(paragraphs), mapping)

build_preview_text(doc, mapping) ==
    join(<<"\n", "\n">>, PreviewBuf(_iter_paragraphs(doc), mapping))

----------------------------------------------------------------------------
(* IEEE-754 binary64 arithmetic for int((filled / total) * 100), app.py    *)
(* line 134. A float is [m, e]: m the 53 significand bits, most            *)
(* significant first, e the exponent of m[1]; its value is the sum of      *)
(* m[i] * 2^(e+1-i). Both operations round to nearest, ties to even.       *)

MantBits == 53

\* the low `width` bits of n, most significant first
ToBits(n, width) == [i \in 1..width |-> (n \div 2^(width - i)) % 2]

\* the integer a bit sequence spells (at most 30 bits)
RECURSIVE BitsToInt(_)
BitsToInt(bits) ==
    IF bits = <<>> THEN 0
    ELSE IF Len(bits) = 1 THEN bits[1]
    ELSE LET h == Len(bits) \div 2
         IN  BitsToInt(SubSeq(bits, 1, h)) * 2^(Len(bits) - h)
             + BitsToInt(SubSeq(bits, h + 1, Len(bits)))

\* bits without its leading zeros
StripZeros(bits) ==
    IF \A i \in 1..Len(bits) : bits[i] = 0 THEN <<>>
    ELSE SubSeq(bits, CHOOSE i \in 1..Len(bits) :
                        bits[i] = 1 /\ \A j \in 1..(i - 1) : bits[j] = 0,
                Len(bits))

\* bits + 1; one bit longer when every bit was 1
IncBits(bits) ==
    IF \A i \in 1..Len(bits) : bits[i] = 1
    THEN <<1>> \o [i \in 1..Len(bits) |-> 0]
    ELSE LET z == CHOOSE i \in 1..Len(bits) :
                    bits[i] = 0 /\ \A j \in (i + 1)..Len(bits) : bits[j] = 1
         IN  [i \in 1..Len(bits) |-> IF i < z THEN bits[i] ELSE IF i = z THEN 1 ELSE 0]

\* the float nearest to the number whose bits (bits[1] = 1) start at exponent e
RoundNearestEven(bits, e) ==
    IF Len(bits) <= MantBits
    THEN [m |-> bits \o [i \in 1..(MantBits - Len(bits)) |-> 0], e |-> e]
    ELSE LET kept == SubSeq(bits, 1, MantBits)
             guard == bits[MantBits + 1]
             sticky == \E i \in (MantBits + 2)..Len(bits) : bits[i] = 1
             up == guard = 1 /\ (sticky \/ kept[MantBits] = 1)
             r == IF up THEN IncBits(kept) ELSE kept
         IN  IF Len(r) > MantBits
             THEN [m |-> SubSeq(r, 1, MantBits), e |-> e + 1]
             ELSE [m |-> r, e |-> e]

\* the least j with a * 2^j >= b, for 0 < a <= b
NormShift(a, b) == CHOOSE j \in 0..30 : a * 2^j >= b /\ (j = 0 \/ a * 2^(j - 1) < b)

\* 2^n mod t by repeated squaring
RECURSIVE PowMod2(_, _)
PowMod2(n, t) ==
    IF n = 0 THEN 1 % t
    ELSE LET h == PowMod2(n \div 2, t)
         IN  (((h * h) % t) * (IF n % 2 = 1 THEN 2 ELSE 1)) % t

(* Long division of r by t, t <= r < 2t: the partial remainder before bit i *)
(* is r for i = 1 and 2 * ((r * 2^(i-2)) mod t) after, the bit is 1 when it *)
(* reaches t. n quotient bits, then a sticky bit for what remains.          *)
LongDivRem(r, t, i) == IF i = 1 THEN r ELSE 2 * ((r * PowMod2(i - 2, t)) % t)
LongDiv(r, t, n) ==
    [i \in 1..(n + 1) |->
        IF i <= n THEN (IF LongDivRem(r, t, i) >= t THEN 1 ELSE 0)
        ELSE (IF LongDivRem(r, t, n + 1) > 0 THEN 1 ELSE 0)]

\* a / b for integers 0 < a <= b, correctly rounded
FloatDiv(a, b) ==
    LET j == NormShift(a, b)
    IN  RoundNearestEven(LongDiv(a * 2^j, b, MantBits + 1), 0 - j)

(* bits * k for a small integer k: the significand in three limbs of at    *)
(* most LimbBits bits, each multiplied and the carries passed upward.      *)
LimbBits == 18
MulBits(bits, k) ==
    LET n == Len(bits)
        lo == BitsToInt(SubSeq(bits, n - LimbBits + 1, n)) * k
        mid == BitsToInt(SubSeq(bits, n - 2 * LimbBits + 1, n - LimbBits)) * k
                 + lo \div 2^LimbBits
        hi == BitsToInt(SubSeq(bits, 1, n - 2 * LimbBits)) * k + mid \div 2^LimbBits
    IN  StripZeros(ToBits(hi, 30)) \o ToBits(mid % 2^LimbBits, LimbBits)
            \o ToBits(lo % 2^LimbBits, LimbBits)

\* x * k for a small positive integer k (exactly a float), correctly rounded
FloatMul(x, k) ==
    LET p == MulBits(x.m, k)
    IN  RoundNearestEven(p, x.e - (MantBits - 1) + Len(p) - 1)

\* int(x) for x >= 0: the bits above the binary point
FloatToInt(x) == IF x.e < 0 THEN 0 ELSE BitsToInt(SubSeq(x.m, 1, x.e + 1))

\* int((filled / total) * 100) if total else 100
progress_pct_of(filled, total) ==
    IF total # 0
    THEN IF filled = 0 THEN 0
         ELSE FloatToInt(FloatMul(FloatDiv(filled, total), 100))
    ELSE 100

MaxTotal == 50      \* most placeholders of a document (SpecView)

\* progress_pct_of, computed once for the totals the model reaches
ProgressPct ==
    [total \in 0..MaxTotal |-> [filled \in 0..total |-> progress_pct_of(filled, total)]]

----------------------------------------------------------------------------
(* src/app.py: the session and the helpers of the controller *)

EmptySession == [k \in {} |-> None]

\* session.get(k), with what the code falls back on when k is absent
Get(s, k, default) == IF k \in DOMAIN s THEN s[k] ELSE default
\* session[k] = r[k] for every field of the record r
Update(s, r) ==
    [k \in DOMAIN s \cup DOMAIN r |-> IF k \in DOMAIN r THEN r[k] ELSE s[k]]
\* session.pop(k, None) for every k of ks
Pop(s, ks) == [k \in DOMAIN s \ ks |-> s[k]]

SAMPLE_PATH == <<"sample_docs", 0>>
UploadPath(n) == <<"uploads", n>>

(* A transcript text. The code formats HTML; each of its messages is       *)
(* determined by which format string it is and by the values put into it,  *)
(* and that is what two texts are compared by.                             *)
Text(kind, key, value, count) ==
    [kind |-> kind, key |-> key, value |-> value, count |-> count]
Turn(role, text) == [role |-> role, text |-> text]

_is_filled(value) == value # None /\ strip(value) # <<>>

_reset_state(s) ==
    Update(Pop(s, {"doc_path", "doc_name", "placeholders", "mapping", "current_key"}),
           [chat_history |-> <<>>, filled_count |-> 0, total_placeholders |-> 0])

\* {ph: None for ph in placeholders}
DictFromKeys(placeholders) ==
    LET first(i) == \A j \in 1..(i - 1) : placeholders[j] # placeholders[i]
        idx == {i \in 1..Len(placeholders) : first(i)}
        nth(k) == CHOOSE i \in idx : Cardinality({j \in idx : j <= i}) = k
    IN  [k \in 1..Cardinality(idx) |-> <<placeholders[nth(k)], None>>]

\* _initialize_workflow that carries the recorded values over to the new mapping
InitializeKeepingAnswers(s, doc_path, placeholders, doc_name, intro_template) ==
    Update(_reset_state(s),
           [doc_path |-> doc_path,
            doc_name |-> doc_name,
            placeholders |-> placeholders,
            mapping |-> [i \in 1..Len(DictFromKeys(placeholders)) |->
                           <<DictFromKeys(placeholders)[i][1],
                             DictGet(Get(s, "mapping", <<>>),
                                     DictFromKeys(placeholders)[i][1])>>],
            total_placeholders |-> Len(placeholders),
            filled_count |-> 0,
            current_key |-> IF placeholders # <<>> THEN placeholders[1] ELSE None,
            chat_history |->
                <<Turn("bot",
                       IF placeholders # <<>>
                       THEN Text(intro_template, placeholders[1], None, Len(placeholders))
                       ELSE Text("No placeholders found", None, None, 0))>>])

_initialize_workflow(s, doc_path, placeholders, doc_name, intro_template) ==
    Update(_reset_state(s),
           [doc_path |-> doc_path,
            doc_name |-> doc_name,
            placeholders |-> placeholders,
            mapping |-> DictFromKeys(placeholders),
            total_placeholders |-> Len(placeholders),
            filled_count |-> 0,
            current_key |-> IF placeholders # <<>> THEN placeholders[1] ELSE None,
            chat_history |->
                <<Turn("bot",
                       IF placeholders # <<>>
                       THEN Text(intro_template, placeholders[1], None, Len(placeholders))
                       ELSE Text("No placeholders found", None, None, 0))>>])

Unfilled(placeholders, mapping) ==
    {i \in 1..Len(placeholders) : ~_is_filled(DictGet(mapping, placeholders[i]))}

\* for key in placeholders: if not _is_filled(mapping.get(key)): return key
FirstUnfilled(placeholders, mapping) ==
    IF Unfilled(placeholders, mapping) = {} THEN None
    ELSE placeholders[CHOOSE i \in Unfilled(placeholders, mapping) :
                        \A j \in Unfilled(placeholders, mapping) : i <= j]

\* _next_key without lines 120-121: the selection is not kept
NextKeyIgnoringSelection(s) ==
    FirstUnfilled(Get(s, "placeholders", <<>>), Get(s, "mapping", <<>>))

_next_key(s) ==
    LET placeholders == Get(s, "placeholders", <<>>)
        mapping == Get(s, "mapping", <<>>)
        current == Get(s, "current_key", None)
    IN  IF current # None /\ current # <<>> /\ SeqHas(placeholders, current)
        THEN current
        ELSE FirstUnfilled(placeholders, mapping)

\* the dict _get_workflow_state returns (the humanized labels are left out)
WorkflowState(s) ==
    LET placeholders == Get(s, "placeholders", <<>>)
        mapping == Get(s, "mapping", <<>>)
        next_key == _next_key(s)
        total == Len(placeholders)
        filled == Cardinality({i \in 1..total :
                                _is_filled(DictGet(mapping, placeholders[i]))})
    IN  [placeholder_items |->
            [i \in 1..total |->
                [raw |-> placeholders[i],
                 value |-> DictGet(mapping, placeholders[i]),
                 is_filled |-> _is_filled(DictGet(mapping, placeholders[i])),
                 is_active |-> placeholders[i] = next_key]],
         mapping |-> mapping,
         total |-> total,
         filled |-> filled,
         remaining |-> total - filled,
         progress_pct |-> IF total <= MaxTotal THEN ProgressPct[total][filled]
                          ELSE progress_pct_of(filled, total),
         next_key |-> next_key,
         active_raw |-> next_key,
         active_value |-> IF next_key # None THEN DictGet(mapping, next_key) ELSE None,
         doc_name |-> Get(s, "doc_name", None),
         has_placeholders |-> placeholders # <<>>,
         has_remaining |-> total - filled > 0,
         document_ready |-> Get(s, "doc_path", None) # None]

\* the session as _get_workflow_state leaves it
_get_workflow_state(s) ==
    LET state == WorkflowState(s)
    IN  Update(s, [filled_count |-> state.filled,
                   total_placeholders |-> state.total,
                   current_key |-> state.next_key])

\* line 200: request.form.get("message", "").strip()
FormMessage(message) == strip(IF message = None THEN <<>> ELSE message)

\* lines 212-214 run twice: a second layer of brackets is removed as well
StripTwoLayers(msg) ==
    LET once(v) == IF startswith(v, "[") /\ endswith(v, "]")
                   THEN strip(SubSeq(v, 2, Len(v) - 1))
                   ELSE v
    IN  once(once(msg))

\* lines 212-214
StripBrackets(msg) ==
    IF startswith(msg, "[") /\ endswith(msg, "]")
    THEN strip(SubSeq(msg, 2, Len(msg) - 1))
    ELSE msg

\* answer with the test of line 205 left out: the key is appended to the
\* placeholder list whether or not it is already there
AnswerRecordAlwaysAppending(s, key, message) ==
    LET old == Get(s, "placeholders", <<>>)
        s1 == Update(s, [placeholders |-> Append(old, key)])
    IN  Update(s1, [mapping |-> DictSet(Get(s, "mapping", <<>>), key,
                                        StripBrackets(FormMessage(message))),
                    current_key |-> None])

\* answer with line 219 left out: the selection survives the answer
AnswerRecordKeepingSelection(s, key, message) ==
    LET old == Get(s, "placeholders", <<>>)
        s1 == IF SeqHas(old, key) THEN s ELSE Update(s, [placeholders |-> Append(old, key)])
    IN  Update(s1, [mapping |-> DictSet(Get(s, "mapping", <<>>), key,
                                        StripBrackets(FormMessage(message)))])

\* answer, lines 204-219, for a request that passed line 201: the key is
\* registered, the value recorded and the selection cleared
AnswerRecord(s, key, message) ==
    LET old == Get(s, "placeholders", <<>>)
        s1 == IF SeqHas(old, key) THEN s ELSE Update(s, [placeholders |-> Append(old, key)])
    IN  Update(s1, [mapping |-> DictSet(Get(s, "mapping", <<>>), key,
                                        StripBrackets(FormMessage(message))),
                    current_key |-> None])

\* answer without line 210: the user turn is not appended
AnswerWithoutUserTurn(s, key, message) ==
    LET s2 == AnswerRecord(s, key, message)
        nxt == WorkflowState(s2).next_key
        bot_msg == IF nxt # None /\ nxt # <<>>
                   THEN Text("Got it. Next up", nxt, None, 0)
                   ELSE Text("All set!", None, None, 0)
    IN  Update(_get_workflow_state(s2),
               [chat_history |-> Append(Get(s, "chat_history", <<>>), Turn("bot", bot_msg))])

\* answer, lines 204-236, for a request that passed line 201
answer_session(s, key, message) ==
    LET chat1 == Append(Get(s, "chat_history", <<>>),
                        Turn("you", Text("you", None, FormMessage(message), 0)))
        s2 == AnswerRecord(s, key, message)
        nxt == WorkflowState(s2).next_key
        bot_msg == IF nxt # None /\ nxt # <<>>
                   THEN Text("Got it. Next up", nxt, None, 0)
                   ELSE Text("All set!", None, None, 0)
    IN  Update(_get_workflow_state(s2),
               [chat_history |-> Append(chat1, Turn("bot", bot_msg))])

\* set_current without the test of line 284: the message is always appended
SetCurrentAlwaysAppending(s, key) ==
    LET existing_value == DictGet(Get(s, "mapping", <<>>), key)
        message == Text("Sure - let's update", key,
                        IF _is_filled(existing_value) THEN existing_value ELSE None, 0)
    IN  Update(s, [current_key |-> key,
                   chat_history |-> Append(Get(s, "chat_history", <<>>),
                                           Turn("bot", message))])

\* set_current, lines 270-286, for a request that passed line 267
set_current_session(s, key) ==
    LET chat_history == Get(s, "chat_history", <<>>)
        existing_value == DictGet(Get(s, "mapping", <<>>), key)
        message == Text("Sure - let's update", key,
                        IF _is_filled(existing_value) THEN existing_value ELSE None, 0)
    IN  Update(s, [current_key |-> key,
                   chat_history |->
                       IF chat_history = <<>>
                          \/ chat_history[Len(chat_history)].text # message
                       THEN Append(chat_history, Turn("bot", message))
                       ELSE chat_history])

\* clear_answer with line 299 left out: the pointer is not moved
ClearKeepingPointer(s, key) ==
    Update(s, [mapping |-> DictSet(Get(s, "mapping", <<>>), key, None),
               chat_history |-> Append(Get(s, "chat_history", <<>>),
                                       Turn("bot", Text("Cleared the answer", key, None, 0)))])

\* clear_answer that starts from a fresh mapping: every answer is lost
ClearWipingMapping(s, key) ==
    Update(s, [mapping |-> DictFromKeys(Get(s, "placeholders", <<>>)),
               current_key |-> key,
               chat_history |-> Append(Get(s, "chat_history", <<>>),
                                       Turn("bot", Text("Cleared the answer", key, None, 0)))])

\* clear_answer, lines 296-310, for a request that passed line 293
clear_answer_session(s, key) ==
    Update(s, [mapping |-> DictSet(Get(s, "mapping", <<>>), key, None),
               current_key |-> key,
               chat_history |-> Append(Get(s, "chat_history", <<>>),
                                       Turn("bot", Text("Cleared the answer", key, None, 0)))])

----------------------------------------------------------------------------
(* Documents, as python-docx presents them *)

Texts(alphabet, n) == UNION {[1..k -> alphabet] : k \in 0..n}

Leaf(ps) == [paragraphs |-> ps, tables |-> <<>>]

\* body paragraphs p1, p2; one table of two rows: row 1 holds a cell with
\* paragraph c1 and a nested one-cell table (n1), then a cell c2; row 2 a cell c3
TableDoc(p1, p2, c1, n1, c2, c3) ==
    [paragraphs |-> <<p1, p2>>,
     tables |-> << << << [paragraphs |-> <<c1>>,
                          tables |-> << << <<Leaf(<<n1>>)>> >> >>],
                         Leaf(<<c2>>) >>,
                      << Leaf(<<c3>>) >> >> >>]

----------------------------------------------------------------------------
(* src/app.py: files and request inputs *)

\* a .docx file: one that Document() opens, or one it raises on
Readable(doc) == [readable |-> TRUE, doc |-> doc]
Unreadable == [readable |-> FALSE, doc |-> [paragraphs |-> <<>>, tables |-> <<>>]]

\* the file at a path: the sample as the request finds it, or a saved upload
FileAt(path, sample) == IF path = SAMPLE_PATH THEN sample ELSE files[path[2]]

\* str.lower() on the letters the file names use
Lower(c) ==
    CASE c = "D" -> "d" [] c = "O" -> "o" [] c = "C" -> "c" [] c = "X" -> "x"
      [] OTHER -> c
lower(name) == [i \in 1..Len(name) |-> Lower(name[i])]

SeqEndsWith(name, suffix) ==
    Len(name) >= Len(suffix)
    /\ SubSeq(name, Len(name) - Len(suffix) + 1, Len(name)) = suffix

(* werkzeug's secure_filename on names of letters and dots: what it does   *)
(* to them is strip("._").                                                 *)
RECURSIVE secure_filename(_)
secure_filename(name) ==
    IF name # <<>> /\ Head(name) \in {".", "_"} THEN secure_filename(Tail(name))
    ELSE IF name # <<>> /\ name[Len(name)] \in {".", "_"}
    THEN secure_filename(SubSeq(name, 1, Len(name) - 1))
    ELSE name

\* line 100
IsDocxName(filename) ==
    filename # <<>> /\ SeqEndsWith(lower(filename), <<".", "d", "o", "c", "x">>)

KeyA == <<"[", "a", "]">>
KeyB == <<"[", "b", "]">>
AdHocKey == <<"k">>

\* the deployed sample: two placeholders, one repeated in a table cell
SampleDoc ==
    [paragraphs |-> << <<"[", "a", "]", " ", "[", "b", "]">> >>,
     tables |-> << << << Leaf(<< KeyA >>) >> >> >>]
SampleFiles == {Readable(SampleDoc), Unreadable}

\* what a client uploads: no file part, or a file name and the bytes
NoFile == [present |-> FALSE, filename |-> <<>>, file |-> Unreadable]
Part(filename, file) == [present |-> TRUE, filename |-> filename, file |-> file]
UploadNames ==
    {<<>>, <<"n", ".", "t", "x", "t">>, <<".", "d", "o", "c", "x">>,
     <<"D", ".", "D", "O", "C", "X">>}
UploadFiles ==
    {Readable(Leaf(<< <<"a", "b">> >>)), Readable(Leaf(<< <<"x">>, KeyB >>)), Unreadable}
UploadParts == {NoFile} \cup {Part(n, f) : n \in UploadNames, f \in UploadFiles}

\* request.form.get("key"): absent, empty, a placeholder of a document, another
RequestKeys == {None, <<>>, KeyA, KeyB, AdHocKey}
\* request.form.get("message"): absent, blank, a value, a bracketed value, "[]"
RequestMessages == {None, <<" ">>, <<"v">>, <<"[", "v", "]">>, <<"[", "]">>}

----------------------------------------------------------------------------
(* src/app.py: the routes. Each action is one request handled to its end.  *)

NoView == <<>>
Response(route, status, view, body) ==
    [route |-> route, status |-> status, view |-> view, body |-> body]

\* abort(status), or an exception the handler lets through, before any write
Fail(route, status) ==
    /\ resp' = Response(route, status, NoView, <<>>)
    /\ UNCHANGED <<session, files, sel, outputs, engineVars>>

\* lines 79-80 and 183-184
EnsureSession(s) == IF "chat_history" \notin DOMAIN s THEN _reset_state(s) ELSE s

\* the handlers that render _get_workflow_state()
Render(route, s) ==
    /\ session' = _get_workflow_state(s)
    /\ resp' = Response(route, 200, WorkflowState(s), <<>>)
    /\ UNCHANGED <<files, sel, outputs, engineVars>>

index ==
    /\ session' = EnsureSession(session)
    /\ resp' = Response("index", 200, NoView, <<>>)
    /\ UNCHANGED <<files, sel, outputs, engineVars>>

use_sample(sample) ==
    IF ~sample.readable THEN Fail("use_sample", 500)
    ELSE /\ session' = _initialize_workflow(session, SAMPLE_PATH,
                            extract_placeholders(sample.doc),
                            <<"YC SAFE (sample)">>, "Sample SAFE loaded!")
         /\ resp' = Response("use_sample", 302, NoView, <<>>)
         /\ sel' = [op |-> "load", key |-> None]
         /\ UNCHANGED <<files, outputs, engineVars>>

\* upload that resets the session before the document is opened
UploadResettingFirst(part) ==
    IF ~part.present \/ ~IsDocxName(secure_filename(part.filename))
    THEN Fail("upload", 400)
    ELSE /\ files' = Append(files, part.file)
         /\ UNCHANGED <<outputs, engineVars>>
         /\ IF ~part.file.readable
            THEN /\ session' = _reset_state(session)
                 /\ resp' = Response("upload", 500, NoView, <<>>)
                 /\ UNCHANGED sel
            ELSE /\ session' = _initialize_workflow(session, UploadPath(Len(files) + 1),
                                    extract_placeholders(part.file.doc),
                                    part.filename, "I found")
                 /\ resp' = Response("upload", 302, NoView, <<>>)
                 /\ sel' = [op |-> "load", key |-> None]

upload(part) ==
    IF ~part.present \/ ~IsDocxName(secure_filename(part.filename))
    THEN Fail("upload", 400)
    ELSE /\ files' = Append(files, part.file)
         /\ UNCHANGED <<outputs, engineVars>>
         /\ IF ~part.file.readable
            THEN /\ resp' = Response("upload", 500, NoView, <<>>)
                 /\ UNCHANGED <<session, sel>>
            ELSE /\ session' = _initialize_workflow(session, UploadPath(Len(files) + 1),
                                    extract_placeholders(part.file.doc),
                                    part.filename, "I found")
                 /\ resp' = Response("upload", 302, NoView, <<>>)
                 /\ sel' = [op |-> "load", key |-> None]

chat == Render("chat", EnsureSession(session))
chat_sidebar == Render("chat_sidebar", session)
chat_input == Render("chat_input", session)
progress_badge == Render("progress_badge", session)

answer(key, message) ==
    IF key = None \/ key = <<>> \/ FormMessage(message) = <<>>
    THEN Fail("answer", 400)
    ELSE /\ session' = answer_session(session, key, message)
         /\ resp' = Response("answer", 200, NoView, <<>>)
         /\ sel' = [op |-> "answer", key |-> key]
         /\ UNCHANGED <<files, outputs, engineVars>>

set_current(key) ==
    IF key = None \/ key = <<>> \/ ~SeqHas(Get(session, "placeholders", <<>>), key)
    THEN Fail("set_current", 400)
    ELSE /\ session' = set_current_session(session, key)
         /\ resp' = Response("set_current", 302, NoView, <<>>)
         /\ sel' = [op |-> "set_current", key |-> key]
         /\ UNCHANGED <<files, outputs, engineVars>>

\* clear_answer that writes before it validates the key
ClearThenValidate(key) ==
    /\ session' = IF key = None THEN session ELSE clear_answer_session(session, key)
    /\ resp' = Response("clear_answer",
                        IF key = None \/ key = <<>>
                           \/ ~SeqHas(Get(session, "placeholders", <<>>), key)
                        THEN 400 ELSE 302, NoView, <<>>)
    /\ sel' = [op |-> "clear", key |-> key]
    /\ UNCHANGED <<files, outputs, engineVars>>

clear_answer(key) ==
    IF key = None \/ key = <<>> \/ ~SeqHas(Get(session, "placeholders", <<>>), key)
    THEN Fail("clear_answer", 400)
    ELSE /\ session' = clear_answer_session(session, key)
         /\ resp' = Response("clear_answer", 302, NoView, <<>>)
         /\ sel' = [op |-> "clear", key |-> key]
         /\ UNCHANGED <<files, outputs, engineVars>>

\* the loaded document is the sample as deployed or the upload as saved
preview ==
    IF Get(session, "doc_path", None) = None
    THEN /\ resp' = Response("preview", 302, NoView, <<>>)
         /\ UNCHANGED <<session, files, sel, outputs, engineVars>>
    ELSE LET state == WorkflowState(session)
             doc == FileAt(session["doc_path"], Readable(SampleDoc)).doc
         IN  /\ session' = _get_workflow_state(session)
             /\ resp' = Response("preview", 200, state,
                                 build_preview_text(doc, state.mapping))
             /\ UNCHANGED <<files, sel, outputs, engineVars>>

(* download_docx. What the disk and the client do is not the program's to  *)
(* choose: the save of line 343 completes, or raises before out_path       *)
(* exists, or raises once it has been created; a saved file is sent, or    *)
(* the transfer breaks off. _cleanup is registered at line 345, after the  *)
(* save, and runs once send_file has returned; its unlink removes the file *)
(* this request created.                                                   *)
DownloadOutcomes ==
    {"sent", "transfer fails", "save fails, no file", "save fails, file created"}

OutputFile(doc, complete) == [doc |-> doc, complete |-> complete]

\* out_path.unlink(missing_ok=True) on the file the request appended
_cleanup(dir) == SubSeq(dir, 1, Len(dir) - 1)

download_docx(outcome) ==
    IF Get(session, "doc_path", None) = None
    THEN Fail("download", 404)
    ELSE LET doc == FileAt(session["doc_path"], Readable(SampleDoc)).doc
             out == replace_placeholders(doc, Get(session, "mapping", <<>>))
         IN  /\ UNCHANGED <<session, files, sel, engineVars>>
             /\ CASE outcome = "save fails, no file" ->
                        /\ resp' = Response("download", 500, NoView, <<>>)
                        /\ UNCHANGED outputs
                   [] outcome = "save fails, file created" ->
                        /\ resp' = Response("download", 500, NoView, <<>>)
                        /\ outputs' = Append(outputs, OutputFile(out, FALSE))
                   [] outcome = "sent" ->
                        /\ resp' = Response("download", 200, NoView, out)
                        /\ outputs' = _cleanup(Append(outputs, OutputFile(out, TRUE)))
                   [] outcome = "transfer fails" ->
                        /\ resp' = Response("download", 500, NoView, <<>>)
                        /\ outputs' = _cleanup(Append(outputs, OutputFile(out, TRUE)))

reset ==
    /\ session' = _reset_state(session)
    /\ resp' = Response("reset", 302, NoView, <<>>)
    /\ sel' = [op |-> "reset", key |-> None]
    /\ UNCHANGED <<files, outputs, engineVars>>

----------------------------------------------------------------------------
(* The controller: any request, in any order *)

MaxChat == 4        \* longest transcript
MaxUploads == 1     \* most files saved in UPLOAD_DIR

ChatLen == Len(Get(session, "chat_history", <<>>))

EngineOff ==
    /\ eDoc = Leaf(<<>>) /\ eMap = <<>> /\ ePc = "off" /\ eOut = <<>>

Init ==
    /\ session = EmptySession
    /\ files = <<>>
    /\ outputs = <<>>
    /\ resp = Response("none", 0, NoView, <<>>)
    /\ sel = [op |-> "none", key |-> None]
    /\ EngineOff

UseSample == \E sample \in SampleFiles : use_sample(sample)
Upload == \E part \in UploadParts : Len(files) < MaxUploads /\ upload(part)
Answer ==
    \E key \in RequestKeys, message \in RequestMessages :
        ChatLen + 2 <= MaxChat /\ answer(key, message)
SetCurrent == \E key \in RequestKeys : ChatLen + 1 <= MaxChat /\ set_current(key)
ClearAnswer == \E key \in RequestKeys : ChatLen + 1 <= MaxChat /\ clear_answer(key)

Next ==
    \/ index
    \/ UseSample
    \/ Upload
    \/ chat
    \/ chat_sidebar
    \/ chat_input
    \/ progress_badge
    \/ Answer
    \/ SetCurrent
    \/ ClearAnswer
    \/ preview
    \/ reset

Spec == Init /\ [][Next]_vars

----------------------------------------------------------------------------
(* The derived view on long documents: a document of n distinct            *)
(* placeholders is uploaded into a fresh session and answered in the order *)
(* the application asks, with reads in between.                            *)

Digits == <<"0", "1", "2", "3", "4", "5", "6", "7", "8", "9">>
NumKey(i) == <<"[", Digits[((i \div 10) % 10) + 1], Digits[(i % 10) + 1], "]">>
BigDoc(n) == Leaf([i \in 1..n |-> NumKey(i)])

LoadBig ==
    \E n \in 0..MaxTotal :
        /\ ~("doc_path" \in DOMAIN session)
        /\ files = <<>>
        /\ upload(Part(<<"D", ".", "D", "O", "C", "X">>, Readable(BigDoc(n))))

GuidedAnswer ==
    /\ Get(session, "current_key", None) # None
    /\ answer(session["current_key"], <<"v">>)

NextView ==
    \/ LoadBig
    \/ GuidedAnswer
    \/ progress_badge

SpecView == Init /\ [][NextView]_vars

----------------------------------------------------------------------------
(* A session with downloads. Nothing is answered before a first load or   *)
(* reset, so a session that has no document and whose sel is not "none"   *)
(* has been reset and not loaded since.                                    *)

MaxOutputs == 1     \* most files left in OUTPUT_DIR

AnswerLoaded ==
    \E key \in {KeyA, AdHocKey}, message \in {<<"v">>, <<"[", "]">>} :
        /\ sel.op # "none"
        /\ ChatLen + 2 <= MaxChat
        /\ answer(key, message)

Download ==
    \E outcome \in DownloadOutcomes :
        /\ outcome = "save fails, file created" => Len(outputs) < MaxOutputs
        /\ download_docx(outcome)

NextDownload ==
    \/ UseSample
    \/ AnswerLoaded
    \/ SetCurrent
    \/ ClearAnswer
    \/ preview
    \/ Download
    \/ reset

SpecDownload == Init /\ [][NextDownload]_vars

----------------------------------------------------------------------------
(* One answer, of any text: the sample is loaded or not, and one value is  *)
(* submitted for a placeholder of the sample or for a key of the client's. *)

MaxMsgLen == 5      \* longest submitted message (SpecAnswer)

AnswerMessages == Texts({"[", "]", " ", "v"}, MaxMsgLen)

LoadSample ==
    /\ Get(session, "doc_path", None) = None
    /\ ChatLen = 0
    /\ use_sample(Readable(SampleDoc))

AnswerText ==
    \E key \in {KeyA, AdHocKey}, message \in AnswerMessages :
        /\ ChatLen <= 1
        /\ answer(key, message)

NextAnswer ==
    \/ LoadSample
    \/ AnswerText

SpecAnswer == Init /\ [][NextAnswer]_vars

----------------------------------------------------------------------------
(* The engine on its own: extraction of any document of ExtractDocs, and   *)
(* substitution and preview of any document of SubstDocs under any mapping *)
(* of SubstMaps.                                                           *)

MaxLen == 6         \* longest text of a one-paragraph document (SpecExtract)
MaxSubstLen == 5    \* longest text of a one-paragraph document (SpecSubst)
MaxEntries == 2     \* most entries of a mapping (SpecSubst)

\* the texts of the paragraphs of a document with tables
SlotTexts == {<<>>, KeyA, KeyB}

ExtractDocs ==
    {Leaf(<<t>>) : t \in Texts({"[", "]", "a", " "}, MaxLen)}
    \cup {TableDoc(t[1], t[2], t[3], t[4], t[5], t[6]) : t \in [1..6 -> SlotTexts]}

SubstDocs ==
    {Leaf(<<t>>) : t \in Texts({"[", "]", "a"}, MaxSubstLen)}
    \cup {Leaf(<< KeyA \o KeyB, <<" ">>, KeyB \o <<" ">> \o KeyA >>),
          Leaf(<< <<"[">> \o KeyA \o <<"]">> >>),
          Leaf(<< <<"[">> \o KeyA \o <<"a", "]">> >>),
          TableDoc(KeyA \o KeyA, <<>>, KeyB, <<"a">> \o KeyA, <<" ">>, KeyB \o KeyA),
          TableDoc(KeyB, KeyA, <<>>, KeyA \o <<" ">> \o KeyB, KeyA, <<"a">>)}

\* a mapping: distinct keys (a token, another, a key that is not a token),
\* each with no value, a plain value, a blank one or one that holds a token
SubstKeys == {KeyA, KeyB, <<"a">>}
SubstValues == {None, <<"a">>, <<" ">>, KeyB}
SubstMaps ==
    {m \in UNION {[1..n -> SubstKeys \X SubstValues] : n \in 0..MaxEntries} :
        \A i, j \in 1..Len(m) : i # j => m[i][1] # m[j][1]}

ControllerIdle ==
    /\ session = EmptySession
    /\ files = <<>>
    /\ outputs = <<>>
    /\ resp = Response("none", 0, NoView, <<>>)
    /\ sel = [op |-> "none", key |-> None]

InitExtract ==
    /\ ControllerIdle
    /\ eDoc \in ExtractDocs
    /\ eMap = <<>>
    /\ ePc = "start"
    /\ eOut = <<>>

Extract ==
    /\ ePc = "start"
    /\ eOut' = extract_placeholders(eDoc)
    /\ ePc' = "extracted"
    /\ UNCHANGED <<eDoc, eMap, sessionVars>>

NextExtract == Extract

SpecExtract == InitExtract /\ [][NextExtract]_vars

InitSubst ==
    /\ ControllerIdle
    /\ eDoc \in SubstDocs
    /\ eMap \in SubstMaps
    /\ ePc = "start"
    /\ eOut = <<>>

\* the document replace_placeholders saves at out_path
Replace ==
    /\ ePc = "start"
    /\ eOut' = replace_placeholders(eDoc, eMap)
    /\ ePc' = "replaced"
    /\ UNCHANGED <<eDoc, eMap, sessionVars>>

Preview ==
    /\ ePc = "start"
    /\ eOut' = build_preview_text(eDoc, eMap)
    /\ ePc' = "previewed"
    /\ UNCHANGED <<eDoc, eMap, sessionVars>>

NextSubst ==
    \/ Replace
    \/ Preview

SpecSubst == InitSubst /\ [][NextSubst]_vars

----------------------------------------------------------------------------
(* What the claims speak of *)

Placeholders == Get(session, "placeholders", <<>>)
Mapping == Get(session, "mapping", <<>>)
Pointer == Get(session, "current_key", None)
Transcript == Get(session, "chat_history", <<>>)
DocumentLoaded == Get(session, "doc_path", None) # None

FilledAt(i) == DictGet(Mapping, Placeholders[i]) # None
               /\ strip(DictGet(Mapping, Placeholders[i])) # <<>>

\* p is null and every placeholder is filled, or p is the first unfilled one
IsAutoPointer(p) ==
    \/ p = None /\ \A i \in 1..Len(Placeholders) : FilledAt(i)
    \/ \E i \in 1..Len(Placeholders) :
          /\ p = Placeholders[i]
          /\ ~FilledAt(i)
          /\ \A j \in 1..(i - 1) : FilledAt(j)

AcceptedAnswer == resp.route = "answer" /\ resp.status = 200
LastTurn == Transcript[Len(Transcript)]
ReadRoutes == {"chat", "chat_sidebar", "chat_input", "progress_badge", "preview"}

(* C1: after an accepted answer the pointer is the first unfilled          *)
(* placeholder in list order, or null when all are filled, whatever key    *)
(* was answered and whatever was selected before; and the bot turn that    *)
(* answer appended is the "complete" message exactly when the pointer is   *)
(* null.                                                                   *)
C1_AnswerAdvances ==
    AcceptedAnswer =>
        /\ IsAutoPointer(Pointer)
        /\ Transcript # <<>>
        /\ LastTurn.role = "bot"
        /\ (LastTurn.text.kind = "All set!") <=> (Pointer = None)

\* an answer to a key other than the one selected just before it, with
\* another placeholder left to ask
C1_Witness ==
    /\ AcceptedAnswer
    /\ Len(Transcript) >= 3
    /\ Transcript[Len(Transcript) - 2].text.kind \in {"Sure - let's update",
                                                       "Cleared the answer"}
    /\ Transcript[Len(Transcript) - 2].text.key # sel.key
    /\ Pointer # None
    /\ Pointer # Transcript[Len(Transcript) - 2].text.key

(* C2 as stated: with a document loaded, the pointer is null with every    *)
(* placeholder filled, or the first unfilled placeholder, unless it was    *)
(* selected by set-current and is still in the list.                       *)
C2_Original ==
    DocumentLoaded =>
        \/ IsAutoPointer(Pointer)
        \/ sel.op = "set_current" /\ Pointer = sel.key /\ SeqHas(Placeholders, Pointer)

(* C2 amended: the exception covers a pointer selected by set-current or   *)
(* by clear, which also sets the pointer to its key.                       *)
C2_PointerInvariant ==
    DocumentLoaded =>
        \/ IsAutoPointer(Pointer)
        \/ /\ sel.op \in {"set_current", "clear"}
           /\ Pointer = sel.key
           /\ SeqHas(Placeholders, Pointer)

\* a cleared key that is not the first unfilled placeholder is the pointer
C2_Witness ==
    /\ DocumentLoaded
    /\ sel.op = "clear"
    /\ Pointer = sel.key
    /\ ~IsAutoPointer(Pointer)

(* C3: after set-current(K) the pointer is K and stays K across reads,     *)
(* until the next accepted answer, clear, set-current, load or reset.      *)
C3_SelectionSticks == sel.op = "set_current" => Pointer = sel.key

\* a read has been served after selecting a filled key while an earlier
\* placeholder is unfilled
C3_Witness ==
    /\ sel.op = "set_current"
    /\ resp.route \in ReadRoutes
    /\ resp.status = 200
    /\ \E i \in 1..Len(Placeholders) :
          /\ Placeholders[i] = sel.key
          /\ FilledAt(i)
          /\ \E j \in 1..(i - 1) : ~FilledAt(j)

(* C4: clear(K) on an existing key sets K's entry to null and the pointer  *)
(* to K, appends exactly one bot turn, and leaves the placeholder list and *)
(* every other key's entry as they were.                                   *)
C4_ClearFrame ==
    [][(resp'.route = "clear_answer" /\ resp'.status = 302) =>
          /\ DictGet(Mapping', sel'.key) = None
          /\ Pointer' = sel'.key
          /\ Len(Transcript') = Len(Transcript) + 1
          /\ SubSeq(Transcript', 1, Len(Transcript)) = Transcript
          /\ Transcript'[Len(Transcript')].role = "bot"
          /\ Placeholders' = Placeholders
          /\ DictKeys(Mapping') = DictKeys(Mapping)
          /\ \A i \in 1..Len(Mapping) :
                Mapping[i][1] # sel'.key => Mapping'[i] = Mapping[i]]_vars

\* a key has been cleared while another key holds a value
C4_Witness ==
    /\ resp.route = "clear_answer"
    /\ resp.status = 302
    /\ \E i \in 1..Len(Placeholders) : Placeholders[i] # sel.key /\ FilledAt(i)

(* C5: a request rejected with 400 (answer without key or with a blank     *)
(* value, set-current or clear with a missing or unknown key, upload with  *)
(* no file or a name that is not .docx) leaves the session and the stored  *)
(* documents exactly as they were.                                         *)
C5_RejectedUnchanged ==
    [][resp'.status = 400 => session' = session /\ files' = files]_vars

\* a clear of a key that is not in a non-empty placeholder list was rejected
C5_Witness ==
    /\ resp.status = 400
    /\ resp.route = "clear_answer"
    /\ Placeholders # <<>>
    /\ \E i \in 1..Len(Placeholders) : FilledAt(i)

(* C6: a load whose document cannot be opened installs nothing: the        *)
(* session is what it was before the request.                              *)
C6_FailedLoadKeepsSession ==
    [][(resp'.status = 500 /\ resp'.route \in {"use_sample", "upload"}) =>
          session' = session]_vars

\* an upload failed while a workflow with an answer was active
C6_Witness ==
    /\ resp.status = 500
    /\ resp.route = "upload"
    /\ DocumentLoaded
    /\ \E i \in 1..Len(Placeholders) : FilledAt(i)

(* C10: in every reachable state the view derived from the session has     *)
(* total = the length of the placeholder list, filled = the number of      *)
(* placeholders whose value is neither null nor blank, remaining = total - *)
(* filled, percentage = floor(100 * filled / total), or 100 when total is  *)
(* 0; the percentage of a non-empty list is 100 exactly when everything is *)
(* filled; and with no placeholders the pointer is null.                   *)
C10_DerivedView ==
    LET view == WorkflowState(session)
        total == Len(Placeholders)
        filled == Cardinality({i \in 1..total : FilledAt(i)})
    IN  /\ view.total = total
        /\ view.filled = filled
        /\ view.remaining = total - filled
        /\ view.progress_pct = IF total > 0 THEN (100 * filled) \div total ELSE 100
        /\ total > 0 => (view.progress_pct = 100 <=> filled = total)
        /\ total = 0 => view.next_key = None

----------------------------------------------------------------------------
(* What the engine claims speak of, said without the engine's operators    *)

\* "[" + one or more characters that are not brackets + "]"
IsToken(s) ==
    /\ Len(s) >= 3
    /\ s[1] = "[" /\ s[Len(s)] = "]"
    /\ \A k \in 2..(Len(s) - 1) : s[k] \notin {"[", "]"}

\* where the tokens of a text are: <<first, last>> of each
TokenSpans(text) ==
    {o \in (1..Len(text)) \X (1..Len(text)) : IsToken(SubSeq(text, o[1], o[2]))}

(* The paragraphs of a document by position: <<0, i>> is paragraph i of    *)
(* the element, <<t, r, c>> \o p is position p in cell c of row r of its   *)
(* table t (t >= 1).                                                       *)
RECURSIVE Positions(_)
Positions(element) ==
    {<<0, i>> : i \in 1..Len(element.paragraphs)}
    \cup UNION {UNION {UNION {{<<t, r, c>> \o p :
                                 p \in Positions(element.tables[t][r][c])} :
                              c \in 1..Len(element.tables[t][r])} :
                       r \in 1..Len(element.tables[t])} :
                t \in 1..Len(element.tables)}

RECURSIVE TextAt(_, _)
TextAt(element, p) ==
    IF p[1] = 0 THEN element.paragraphs[p[2]]
    ELSE TextAt(element.tables[p[1]][p[2]][p[3]], SubSeq(p, 4, Len(p)))

(* Document order: an element's paragraphs come before its tables, tables, *)
(* rows and cells come in their order, and a cell's content comes before   *)
(* the next cell. On positions that is the order of the first difference.  *)
Precedes(p, q) ==
    \E k \in 1..Len(p) :
        /\ k <= Len(q)
        /\ p[k] < q[k]
        /\ \A n \in 1..(k - 1) : p[n] = q[n]

\* every token occurrence of a document: where it starts and what it is
TokenOccurrences(doc) ==
    UNION {{[at |-> p \o <<o[1]>>, token |-> SubSeq(TextAt(doc, p), o[1], o[2])] :
              o \in TokenSpans(TextAt(doc, p))} : p \in Positions(doc)}

FirstOccurrence(doc, token) ==
    CHOOSE o \in TokenOccurrences(doc) :
        /\ o.token = token
        /\ \A o2 \in TokenOccurrences(doc) :
              o2.token = token /\ o2 # o => Precedes(o.at, o2.at)

(* C7: extract(D) returns exactly the bracket tokens that occur in the     *)
(* paragraph texts of D, body paragraphs and table cells (nested ones      *)
(* included), each token once, in the order of their first occurrences in  *)
(* document order.                                                         *)
C7_ExtractExact ==
    ePc = "extracted" =>
        /\ \A k, l \in 1..Len(eOut) : k # l => eOut[k] # eOut[l]
        /\ {eOut[k] : k \in 1..Len(eOut)} = {o.token : o \in TokenOccurrences(eDoc)}
        /\ \A k, l \in 1..Len(eOut) :
              k < l => Precedes(FirstOccurrence(eDoc, eOut[k]).at,
                                FirstOccurrence(eDoc, eOut[l]).at)

\* a document with tables where a token of the nested table is found before
\* one of the next cell, and a token that occurs again is listed once
C7_Witness ==
    /\ ePc = "extracted"
    /\ eDoc.tables # <<>>
    /\ eDoc.paragraphs = <<<<>>, <<>>>>
    /\ eOut = <<KeyB, KeyA>>
    /\ TextAt(eDoc, <<1, 1, 1, 1, 1, 1, 0, 1>>) = KeyB
    /\ TextAt(eDoc, <<1, 1, 2, 0, 1>>) = KeyA
    /\ TextAt(eDoc, <<1, 2, 1, 0, 1>>) = KeyB

----------------------------------------------------------------------------
(* Substitution, said on token occurrences *)

\* the position that comes n-th in document order
NthPosition(doc, n) ==
    CHOOSE p \in Positions(doc) :
        Cardinality({q \in Positions(doc) : Precedes(q, p)}) = n - 1

\* the n-th token of a text, from the left
NthSpan(text, n) ==
    CHOOSE o \in TokenSpans(text) :
        Cardinality({q \in TokenSpans(text) : q[1] < o[1]}) = n - 1
NthToken(text, n) == SubSeq(text, NthSpan(text, n)[1], NthSpan(text, n)[2])

\* what the claims put in the place of the n-th token: the value of its
\* entry, or the token itself when its entry is null or it has none
Standing(text, mapping, n) ==
    IF DictGet(mapping, NthToken(text, n)) # None
    THEN DictGet(mapping, NthToken(text, n))
    ELSE NthToken(text, n)

\* the text with each of its tokens exchanged for what stands for it and
\* every other character kept
Substituted(text, mapping) ==
    LET n == Cardinality(TokenSpans(text))
        between(k) ==
            SubSeq(text,
                   IF k = 1 THEN 1 ELSE NthSpan(text, k - 1)[2] + 1,
                   IF k = n + 1 THEN Len(text) ELSE NthSpan(text, k)[1] - 1)
    IN  Concat([k \in 1..(2 * n + 1) |->
                   IF k % 2 = 1 THEN between((k + 1) \div 2)
                   ELSE Standing(text, mapping, k \div 2)])

\* what stands for the tokens of text that are keys of the mapping, in order
MappedStanding(text, mapping) ==
    LET IsKey(k) == DictHas(mapping, NthToken(text, k))
        mapped == SelectSeq([k \in 1..Cardinality(TokenSpans(text)) |-> k], IsKey)
    IN  [i \in 1..Len(mapped) |-> Standing(text, mapping, mapped[i])]

\* the segments are found in text from position i on, in their order and
\* one after the other
RECURSIVE OccurInOrder(_, _, _)
OccurInOrder(text, segments, i) ==
    IF segments = <<>> THEN TRUE
    ELSE LET s == Head(segments)
             starts == {k \in i..(Len(text) - Len(s) + 1) :
                          SubSeq(text, k, k + Len(s) - 1) = s}
         IN  /\ starts # {}
             /\ OccurInOrder(text, Tail(segments),
                             (CHOOSE k \in starts : \A k2 \in starts : k <= k2) + Len(s))

AllNonNull(mapping) == \A i \in 1..Len(mapping) : mapping[i][2] # None
TokenKeys(mapping) == \A i \in 1..Len(mapping) : IsToken(mapping[i][1])
\* no value holds a bracket
PlainValues(mapping) ==
    \A i \in 1..Len(mapping) :
        mapping[i][2] # None =>
            \A k \in 1..Len(mapping[i][2]) : mapping[i][2][k] \notin {"[", "]"}
\* every bracket of every paragraph is the first or the last of a token
WellBracketed(doc) ==
    \A p \in Positions(doc) :
        \A k \in 1..Len(TextAt(doc, p)) :
            TextAt(doc, p)[k] \in {"[", "]"} =>
                \E o \in TokenSpans(TextAt(doc, p)) : k = o[1] \/ k = o[2]

(* C8 as stated: for a mapping without null entries, the placeholders      *)
(* extracted from substitute(D, M) include no key of M that is a token of  *)
(* D, and include every token of D that is not a key of M.                 *)
C8_Original ==
    ePc = "replaced" /\ AllNonNull(eMap) =>
        LET before == extract_placeholders(eDoc)
            after == extract_placeholders(eOut)
        IN  /\ \A i \in 1..Len(eMap) :
                  SeqHas(before, eMap[i][1]) => ~SeqHas(after, eMap[i][1])
            /\ \A i \in 1..Len(before) :
                  ~DictHas(eMap, before[i]) => SeqHas(after, before[i])

(* C8, amended: for a mapping without null entries whose keys are all      *)
(* bracket tokens, every token of D that is not a key of M is extracted    *)
(* from substitute(D, M); and when, moreover, no value of M holds a        *)
(* bracket and every bracket of D belongs to a token, what is extracted is *)
(* exactly the tokens of D that are not keys of M, in their order: no key  *)
(* of M is left.                                                           *)
C8_FullReplacement ==
    ePc = "replaced" /\ AllNonNull(eMap) /\ TokenKeys(eMap) =>
        LET before == extract_placeholders(eDoc)
            after == extract_placeholders(eOut)
            Unmapped(t) == ~DictHas(eMap, t)
        IN  /\ \A i \in 1..Len(before) :
                  Unmapped(before[i]) => SeqHas(after, before[i])
            /\ PlainValues(eMap) /\ WellBracketed(eDoc) =>
                  /\ after = SelectSeq(before, Unmapped)
                  /\ \A i \in 1..Len(eMap) : ~SeqHas(after, eMap[i][1])

\* a document with tables, one of its tokens mapped and the other not
C8_Witness ==
    /\ ePc = "replaced"
    /\ eMap # <<>> /\ AllNonNull(eMap) /\ TokenKeys(eMap) /\ PlainValues(eMap)
    /\ WellBracketed(eDoc)
    /\ eDoc.tables # <<>>
    /\ \E t \in {KeyA, KeyB} :
          /\ DictHas(eMap, t)
          /\ Cardinality({o \in TokenOccurrences(eDoc) : o.token = t}) >= 2
    /\ \E o \in TokenOccurrences(eDoc) : ~DictHas(eMap, o.token)
    /\ eOut # eDoc

(* C9 as stated: in the output of substitute(D, M) and in that of          *)
(* preview(D, M), each occurrence of a placeholder whose entry is null is  *)
(* still there literally and each occurrence of a placeholder whose entry  *)
(* is non-null has the entry's value in its place: paragraph by paragraph, *)
(* what stands for the mapped tokens is found in the output, in order.     *)
C9_Original ==
    /\ ePc = "replaced" =>
          /\ Positions(eOut) = Positions(eDoc)
          /\ \A p \in Positions(eDoc) :
                OccurInOrder(TextAt(eOut, p),
                             MappedStanding(TextAt(eDoc, p), eMap), 1)
    /\ ePc = "previewed" =>
          OccurInOrder(eOut,
                       Concat([n \in 1..Cardinality(Positions(eDoc)) |->
                                 MappedStanding(TextAt(eDoc, NthPosition(eDoc, n)), eMap)]),
                       1)

(* C9, amended: when every key of M is a bracket token, no non-null value  *)
(* of M holds a bracket and every bracket of D belongs to a token, each    *)
(* paragraph of substitute(D, M) is the paragraph of D with every token    *)
(* whose entry is non-null exchanged for the entry's value and everything  *)
(* else, the tokens with a null entry included, kept; and preview(D, M) is *)
(* those paragraphs, the blank ones left out, joined by a blank line.      *)
C9_Substituted ==
    TokenKeys(eMap) /\ PlainValues(eMap) /\ WellBracketed(eDoc) =>
        /\ ePc = "replaced" =>
              /\ Positions(eOut) = Positions(eDoc)
              /\ \A p \in Positions(eDoc) :
                    TextAt(eOut, p) = Substituted(TextAt(eDoc, p), eMap)
        /\ ePc = "previewed" =>
              LET NotBlank(t) == \E k \in 1..Len(t) : t[k] \notin {" ", "\t", "\n"}
              IN  eOut = join(<<"\n", "\n">>,
                              SelectSeq([n \in 1..Cardinality(Positions(eDoc)) |->
                                           Substituted(TextAt(eDoc, NthPosition(eDoc, n)),
                                                       eMap)],
                                        NotBlank))

\* a preview of a document with tables where a token with a null entry and
\* a token with a non-null entry both occur
C9_Witness ==
    /\ ePc = "previewed"
    /\ TokenKeys(eMap) /\ PlainValues(eMap) /\ WellBracketed(eDoc)
    /\ eDoc.tables # <<>>
    /\ \E i, j \in 1..Len(eMap) :
          /\ eMap[i][2] = None /\ eMap[j][2] # None
          /\ \E o \in TokenOccurrences(eDoc) : o.token = eMap[i][1]
          /\ \E o \in TokenOccurrences(eDoc) : o.token = eMap[j][1]

----------------------------------------------------------------------------
(* The later claims on the controller *)

\* the text of the user turn an accepted answer appended: the value as
\* submitted, less the whitespace around it
SubmittedValue == Transcript[Len(Transcript) - 1].text.value
StoredValue == DictGet(Mapping, sel.key)

Wrapped(s) == Len(s) >= 2 /\ s[1] = "[" /\ s[Len(s)] = "]"

\* s without the whitespace at its ends
Trimmed(s) ==
    LET inked == {k \in 1..Len(s) : s[k] \notin {" ", "\t", "\n"}}
    IN  IF inked = {} THEN <<>>
        ELSE SubSeq(s, CHOOSE k \in inked : \A k2 \in inked : k <= k2,
                       CHOOSE k \in inked : \A k2 \in inked : k >= k2)

(* C11 as stated: an accepted answer stores the submitted value less its   *)
(* first and last character when it is wrapped in brackets, and the        *)
(* submitted value itself otherwise.                                       *)
C11_Original ==
    AcceptedAnswer =>
        StoredValue = IF Wrapped(SubmittedValue)
                      THEN SubSeq(SubmittedValue, 2, Len(SubmittedValue) - 1)
                      ELSE SubmittedValue

(* C11, amended: the value is taken without the whitespace around it; when *)
(* it then starts with "[" and ends with "]", what is stored is the text   *)
(* between that first and that last character, again without the          *)
(* whitespace around it, and otherwise the value itself. Only one layer is *)
(* removed and inner brackets are kept.                                    *)
C11_StoredValue ==
    AcceptedAnswer =>
        /\ SubmittedValue = Trimmed(SubmittedValue)
        /\ SubmittedValue # <<>>
        /\ StoredValue = IF Wrapped(SubmittedValue)
                         THEN Trimmed(SubSeq(SubmittedValue, 2, Len(SubmittedValue) - 1))
                         ELSE SubmittedValue

\* "[[v]]" was submitted and "[v]" is stored
C11_Witness ==
    /\ AcceptedAnswer
    /\ SubmittedValue = <<"[", "[", "v", "]", "]">>
    /\ StoredValue = <<"[", "v", "]">>

(* C12: a download request that generates an output file ends with that    *)
(* file deleted on every exit path, so that whatever a download request    *)
(* does, OUTPUT_DIR holds after it the files it held before.               *)
C12_OutputDeleted ==
    [][resp'.route = "download" => outputs' = outputs]_vars

\* the session has been reset and no document loaded since (SpecDownload)
ResetSinceLoad == ~DocumentLoaded /\ sel.op # "none"

(* C13: reset leaves the session empty: no document reference, no          *)
(* placeholder list, no mapping, a null pointer, an empty transcript and   *)
(* zero counts; and from then until the next successful load, download     *)
(* answers 404, preview redirects, and set-current and clear are rejected  *)
(* whatever the key.                                                       *)
C13_ResetEmpties ==
    [][/\ resp'.route = "reset" =>
             /\ DOMAIN session' = {"chat_history", "filled_count", "total_placeholders"}
             /\ session'["chat_history"] = <<>>
             /\ session'["filled_count"] = 0
             /\ session'["total_placeholders"] = 0
       /\ ResetSinceLoad =>
             /\ resp'.route = "download" => resp'.status = 404
             /\ resp'.route = "preview" => resp'.status = 302 /\ resp'.body = <<>>
             /\ resp'.route \in {"set_current", "clear_answer"} => resp'.status = 400
      ]_vars

IsPrefix(s, t) == Len(s) <= Len(t) /\ SubSeq(t, 1, Len(s)) = s

\* the request just handled was a load that succeeded, or a reset
LoadedOrReset ==
    \/ resp.route = "reset"
    \/ resp.route \in {"use_sample", "upload"} /\ resp.status = 302

(* C14: a request that is neither a successful load nor a reset leaves the *)
(* previous transcript a prefix of the new one; an accepted answer appends *)
(* a user turn and then a bot turn, an accepted clear one bot turn, an     *)
(* accepted set-current one bot turn or nothing, and a read, a rejected    *)
(* request or a failed load nothing.                                       *)
C14_AppendOnly ==
    [][~LoadedOrReset' =>
          LET old == Transcript
              new == Transcript'
              added == SubSeq(new, Len(old) + 1, Len(new))
              Roles(turns) == [i \in 1..Len(turns) |-> turns[i].role]
          IN  /\ IsPrefix(old, new)
              /\ CASE resp'.route = "answer" /\ resp'.status = 200 ->
                        Roles(added) = <<"you", "bot">>
                   [] resp'.route = "clear_answer" /\ resp'.status = 302 ->
                        Roles(added) = <<"bot">>
                   [] resp'.route = "set_current" /\ resp'.status = 302 ->
                        Roles(added) \in {<<>>, <<"bot">>}
                   [] OTHER -> added = <<>>
      ]_vars

\* a transcript that grew by a load, an answer and a clear
C14_Witness ==
    /\ resp.route = "clear_answer" /\ resp.status = 302
    /\ Len(Transcript) = 4
    /\ [i \in 1..4 |-> Transcript[i].role] = <<"bot", "you", "bot", "bot">>

(* C15: an accepted set-current(K) never appends a message whose text is   *)
(* the text of the transcript's last entry, and the state it leaves is     *)
(* one that a second set-current(K), made at once, accepts and leaves as   *)
(* it is, transcript included.                                             *)
C15_SetCurrentOnce ==
    [][resp'.route = "set_current" /\ resp'.status = 302 =>
          /\ Len(Transcript') > Len(Transcript) /\ Transcript # <<>> =>
                LastTurn'.text # LastTurn.text
          /\ SeqHas(Placeholders', sel'.key)
          /\ set_current_session(session', sel'.key) = session'
      ]_vars

\* set-current of a filled placeholder has appended its message
C15_Witness ==
    /\ resp.route = "set_current" /\ resp.status = 302
    /\ LastTurn.text.kind = "Sure - let's update"
    /\ LastTurn.text.key = sel.key
    /\ LastTurn.text.value = <<"v">>
    /\ Pointer = sel.key

(* C16: preview and download are read-only: neither changes any component  *)
(* of the session (document reference, placeholder list, mapping, pointer, *)
(* transcript, count cache), and neither writes the loaded source file.    *)
C16_ReadOnly ==
    [][resp'.route \in {"preview", "download"} =>
          session' = session /\ files' = files]_vars

\* the request just handled was a load that succeeded
JustLoaded == resp.route \in {"use_sample", "upload"} /\ resp.status = 302

(* C17: after a successful load, whatever the session held before, the     *)
(* placeholder list is what extraction returns for the loaded document,    *)
(* the mapping has exactly those keys, in that order, each with a null     *)
(* entry, the filled count is 0, the pointer is the first placeholder, or  *)
(* null when there is none, and the transcript is one bot turn; the        *)
(* session holds nothing else but the document's path and name.            *)
C17_LoadReplaces ==
    JustLoaded =>
        LET loaded == FileAt(session["doc_path"], Readable(SampleDoc)).doc
        IN  /\ DOMAIN session = {"doc_path", "doc_name", "placeholders", "mapping",
                                 "current_key", "chat_history", "filled_count",
                                 "total_placeholders"}
            /\ Placeholders = extract_placeholders(loaded)
            /\ Mapping = [i \in 1..Len(Placeholders) |-> <<Placeholders[i], None>>]
            /\ session["filled_count"] = 0
            /\ session["total_placeholders"] = Len(Placeholders)
            /\ Pointer = IF Placeholders = <<>> THEN None ELSE Placeholders[1]
            /\ Len(Transcript) = 1
            /\ Transcript[1].role = "bot"
            /\ Transcript[1].text.value = None

\* the sample has been loaded in a session that had uploaded a document
C17_Witness ==
    /\ JustLoaded
    /\ resp.route = "use_sample"
    /\ files # <<>> /\ files[1].readable
    /\ Placeholders = <<KeyA, KeyB>>

(* C18: an accepted answer(key, value) leaves key's entry filled, neither  *)
(* null nor empty once trimmed, and counted by the filled count; so no     *)
(* entry is ever the empty string, which a download would put in the place *)
(* of the key's token.                                                     *)
C18_AnswerFills ==
    /\ AcceptedAnswer =>
          /\ StoredValue # None
          /\ Trimmed(StoredValue) # <<>>
          /\ \E i \in 1..Len(Placeholders) : Placeholders[i] = sel.key /\ FilledAt(i)
          /\ session["filled_count"] =
                Cardinality({i \in 1..Len(Placeholders) : FilledAt(i)})
    /\ \A i \in 1..Len(Mapping) : Mapping[i][2] # <<>>

(* C19: workflow data exists only for a loaded document: in every state    *)
(* without a document reference the placeholder list and the mapping are   *)
(* empty and the pointer is null.                                          *)
C19_DataOnlyWhenLoaded ==
    ~DocumentLoaded =>
        /\ Placeholders = <<>>
        /\ Mapping = <<>>
        /\ Pointer = None

NoDuplicates(seq) == \A i, j \in 1..Len(seq) : seq[i] = seq[j] => i = j

(* C20: in every reachable state the placeholder list holds no token twice *)
(* and the keys of the mapping are exactly the tokens of the placeholder   *)
(* list, after load, answer (ad-hoc keys included), clear and set-current. *)
C20_KeysArePlaceholders ==
    /\ NoDuplicates(Placeholders)
    /\ NoDuplicates(DictKeys(Mapping))
    /\ {Placeholders[i] : i \in 1..Len(Placeholders)}
          = {Mapping[i][1] : i \in 1..Len(Mapping)}

\* an ad-hoc key has been answered on the loaded sample and stands once, at
\* the end of the list, with a recorded value
C20_Witness ==
    /\ DocumentLoaded
    /\ AcceptedAnswer
    /\ sel.key = AdHocKey
    /\ Placeholders = <<KeyA, KeyB, AdHocKey>>
    /\ DictKeys(Mapping) = Placeholders
    /\ Len(Transcript) >= 4

====
